---- MODULE Spec2Model ----
(***************************************************************************)
(* Model of the carina client orchestrator (package client) and of the     *)
(* make-coe cluster service adapter (package makecoe).                     *)
(*                                                                         *)
(* Strings the code inspects character by character (statuses, template   *)
(* names and patterns, filesystem paths) are sequences of one-character    *)
(* strings, so that strings.ToLower, glob matching and filepath.Clean are  *)
(* computed rather than assumed.                                           *)
(***************************************************************************)
EXTENDS Integers, Sequences, FiniteSets, TLC

VARIABLES
    pc,       \* where the caller is: "idle", inside a polling loop, or "done"
    op,       \* the operation in progress or just returned, with its arguments
    svc,      \* the MakeCOE instance most recently constructed
    cluster,  \* the cluster a polling loop was called with
    log,      \* what the operation has called so far, in order
    ret,      \* what the operation returned
    fs,       \* the credential directories on disk
    fs0,      \* the disk as it was when the operation began
    client,   \* the Client: its Cache and its Error
    authFailed \* an earlier operation on svc had its Authenticate fail

vars == <<pc, op, svc, cluster, log, ret, fs, fs0, client, authFailed>>

(***************************************************************************)
(* Bounds of the model                                                     *)
(***************************************************************************)
\* polling iterations explored per wait (the loops themselves are unbounded)
MaxPolls == 3
\* longest filesystem path, in characters, a caller passes
MaxPathLen == 3
\* template ids the backend hands out are 1..MaxID
MaxID == 2
\* longest template listing the backend returns to the template resolver
MaxListing == 2

(***************************************************************************)
(* Strings                                                                 *)
(***************************************************************************)
FoldTable ==
    ("A" :> "a") @@ ("C" :> "c") @@ ("D" :> "d") @@ ("E" :> "e") @@
    ("I" :> "i") @@ ("K" :> "k") @@ ("L" :> "l") @@ ("O" :> "o") @@
    ("R" :> "r") @@ ("S" :> "s") @@ ("T" :> "t") @@ ("V" :> "v")

\* strings.ToLower
ToLower(s) == [i \in 1..Len(s) |-> IF s[i] \in DOMAIN FoldTable THEN FoldTable[s[i]] ELSE s[i]]

sActive   == <<"a","c","t","i","v","e">>
sError    == <<"e","r","r","o","r">>
sDeleted  == <<"d","e","l","e","t","e","d">>
sBuilding == <<"b","u","i","l","d","i","n","g">>

\* the status vocabulary of the backend, in the spellings it may use
Statuses ==
    { sActive, <<"A","c","t","i","v","e">>,
      sError, <<"E","R","R","O","R">>,
      sDeleted, sBuilding }

RECURSIVE Glob(_, _)
\* glob.Glob: "*" matches any run of characters, "?" a single character
Glob(p, s) ==
    IF p = <<>> THEN s = <<>>
    ELSE IF Head(p) = "*"
         THEN Glob(Tail(p), s) \/ (s # <<>> /\ Glob(p, Tail(s)))
         ELSE /\ s # <<>>
              /\ (Head(p) = "?" \/ Head(p) = Head(s))
              /\ Glob(Tail(p), Tail(s))

\* glob.GlobI: the same match with the case folded
GlobI(p, s) == Glob(ToLower(p), ToLower(s))

(***************************************************************************)
(* Errors: a cause (kind, HTTP status code) under a stack of contexts      *)
(***************************************************************************)
StatusNotFound == 404
StatusNotAcceptable == 406

NoErr == [kind |-> "nil", code |-> 0, arg |-> <<>>, ctx |-> <<>>]
\* libcarina.HTTPErr
HTTPErr(c) == [kind |-> "http", code |-> c, arg |-> <<>>, ctx |-> <<>>]
\* a failure below HTTP (connection refused, bad JSON, ...)
TransportErr == [kind |-> "transport", code |-> 0, arg |-> <<>>, ctx |-> <<>>]
\* the error Account.Authenticate returns
AuthErr == [kind |-> "auth", code |-> 0, arg |-> <<>>, ctx |-> <<>>]
\* errors.New(msg)
NewError(msg) == [kind |-> msg, code |-> 0, arg |-> <<>>, ctx |-> <<>>]
\* an error whose text names a string (a pattern, a token)
ErrorNaming(msg, a) == [kind |-> msg, code |-> 0, arg |-> a, ctx |-> <<>>]
\* errors.Wrap(err, msg)
Wrap(err, msg) == [err EXCEPT !.ctx = <<msg>> \o @]
\* errors.Cause(err)
Cause(err) == [err EXCEPT !.ctx = <<>>]

handleNotAcceptable(err) == Wrap(err, "out-of-date")

handleHTTPError(err) ==
    IF err.code = StatusNotAcceptable THEN handleNotAcceptable(err) ELSE err

handleLibcarinaError(err) ==
    IF Cause(err).kind = "http" THEN handleHTTPError(Cause(err)) ELSE err

\* newClientError(err), behind wrapClientError
wrapClientError(err) == IF err = NoErr THEN NoErr ELSE Wrap(err, "client")

\* what a call of the libcarina client may fail with
BackendErrs ==
    { HTTPErr(StatusNotFound), Wrap(HTTPErr(StatusNotFound), "libcarina"),
      HTTPErr(StatusNotAcceptable), HTTPErr(500), TransportErr }

(***************************************************************************)
(* Paths and the filesystem                                                *)
(***************************************************************************)
RECURSIVE SplitFrom(_, _, _)
\* the elements of path p between separators, from position i on
SplitFrom(p, i, cur) ==
    IF i > Len(p) THEN <<cur>>
    ELSE IF p[i] = "/" THEN <<cur>> \o SplitFrom(p, i + 1, <<>>)
    ELSE SplitFrom(p, i + 1, Append(cur, p[i]))

RECURSIVE CleanSegs(_, _, _)
\* filepath.Clean's rules applied element by element
CleanSegs(segs, rooted, out) ==
    IF segs = <<>> THEN out
    ELSE LET s == Head(segs)
             rest == Tail(segs)
         IN IF s = <<>> \/ s = <<".">> THEN CleanSegs(rest, rooted, out)
            ELSE IF s = <<".", ".">>
                 THEN IF out # <<>> /\ out[Len(out)] # <<".", ".">>
                      THEN CleanSegs(rest, rooted, SubSeq(out, 1, Len(out) - 1))
                      ELSE IF rooted THEN CleanSegs(rest, rooted, out)
                      ELSE CleanSegs(rest, rooted, Append(out, s))
                 ELSE CleanSegs(rest, rooted, Append(out, s))

RECURSIVE JoinSegs(_)
JoinSegs(segs) ==
    IF segs = <<>> THEN <<>>
    ELSE IF Len(segs) = 1 THEN Head(segs)
    ELSE Head(segs) \o <<"/">> \o JoinSegs(Tail(segs))

\* filepath.Clean (Unix)
Clean(p) ==
    IF p = <<>> THEN <<".">>
    ELSE LET rooted == p[1] = "/"
             body == JoinSegs(CleanSegs(SplitFrom(p, 1, <<>>), rooted, <<>>))
         IN IF rooted THEN <<"/">> \o body
            ELSE IF body = <<>> THEN <<".">> ELSE body

\* filepath.Join of two elements
Join(a, b) ==
    IF a = <<>> /\ b = <<>> THEN <<>>
    ELSE IF a = <<>> THEN Clean(b)
    ELSE IF b = <<>> THEN Clean(a)
    ELSE Clean(a \o <<"/">> \o b)

\* the directories the model's filesystem may hold; root and the working
\* directory always exist
Root == <<"/">>
Cwd == <<".">>
FsDirs == { Root, Cwd, <<"/", "a">> }

\* "absent": nothing there; "dir": a directory without ca.pem; "creds": a
\* directory holding ca.pem; "file": a regular file.  Root and the working
\* directory are directories.
FsStates ==
    { f \in [FsDirs -> {"absent", "dir", "creds", "file"}] :
        f[Root] \in {"dir", "creds"} /\ f[Cwd] \in {"dir", "creds"} }

\* a regular file of f lies on the way to p: p is below it
BelowFile(f, p) ==
    \E d \in FsDirs :
        /\ f[d] = "file"
        /\ Len(p) > Len(d)
        /\ SubSeq(p, 1, Len(d) + 1) = d \o <<"/">>

\* os.Stat(p) for a clean p: "ok", or the errno it fails with
Stat(f, p) ==
    IF p \in FsDirs THEN (IF f[p] = "absent" THEN "ENOENT" ELSE "ok")
    ELSE IF BelowFile(f, p) THEN "ENOTDIR"
    ELSE "ENOENT"

\* os.Stat(filepath.Join(p, "ca.pem")) for a clean p
StatCA(f, p) ==
    IF p \in FsDirs
    THEN CASE f[p] = "creds" -> "ok"
           [] f[p] = "file" -> "ENOTDIR"
           [] OTHER -> "ENOENT"
    ELSE Stat(f, p)

\* os.IsNotExist of a Stat result: ENOENT, and no other errno
IsNotExist(r) == r = "ENOENT"

\* os.Stat(p) does not fail with IsNotExist
Exists(f, p) == ~IsNotExist(Stat(f, Clean(p)))

\* p is a regular file, where os.MkdirAll(p) fails
IsFile(f, p) == Clean(p) \in FsDirs /\ f[Clean(p)] = "file"

\* the directory p holds ca.pem
HasCA(f, p) == Clean(p) \in FsDirs /\ f[Clean(p)] = "creds"

\* directory d is p or lies below p (both clean)
Under(p, d) ==
    \/ d = p
    \/ p = Root /\ d[1] = "/"
    \/ p = Cwd /\ d[1] # "/" /\ (Len(d) < 2 \/ SubSeq(d, 1, 2) # <<".", ".">>)
    \/ Len(d) > Len(p) /\ SubSeq(d, 1, Len(p) + 1) = p \o <<"/">>

\* os.RemoveAll(p), succeeding
RemoveAll(f, p) == [d \in FsDirs |-> IF Under(p, d) THEN "absent" ELSE f[d]]

\* os.RemoveAll(p), failing part of the way: the directory is still there,
\* its marker may be gone
RemoveAllFailed(f, p, markerGone) ==
    [d \in FsDirs |-> IF d = p /\ markerGone /\ f[d] = "creds" THEN "dir" ELSE f[d]]

\* the log of one operation: what was called, in order, with the string it
\* was about (a status, a path) and the error it returned
Ev(e) == [e |-> e, s |-> <<>>, err |-> NoErr]
EvS(e, s) == [e |-> e, s |-> s, err |-> NoErr]
EvErr(e, err) == [e |-> e, s |-> <<>>, err |-> err]
EvOk(e, ok) == EvErr(e, IF ok THEN NoErr ELSE NewError("failed"))

\* an account, as far as the credentials path needs it: the credentials
\* directory and whether it can be resolved at all
Accounts ==
    { [credDirOk |-> TRUE, credDir |-> Root],
      [credDirOk |-> FALSE, credDir |-> <<>>] }

\* buildClusterCredentialsPath: the override directory if given, else the
\* directory for the cluster name under the account's credentials directory
buildClusterCredentialsPath(account, name, customPath) ==
    IF customPath # <<>> THEN [path |-> customPath, err |-> NoErr]
    ELSE IF ~account.credDirOk THEN [path |-> <<>>, err |-> NewError("no-home")]
    ELSE [path |-> Join(account.credDir, name), err |-> NoErr]

\* UnsafePath without the test for the root
UnsafePathRootAllowed(p) == p = <<>> \/ p = <<".">>

\* the refusal of an empty, current-directory or root path (part_001:331)
UnsafePath(p) == p = <<>> \/ p = Cwd \/ p = Root

\* Client.DeleteClusterCredentials; rm says how the removal goes if it is
\* attempted: "ok", "fail", "failPartial".  Only a Stat error that
\* os.IsNotExist recognizes stops it short of os.RemoveAll; the removal of a
\* path below a regular file fails.
DeleteClusterCredentials(f, account, name, customPath, rm) ==
    LET b == buildClusterCredentialsPath(account, name, customPath)
        p == Clean(b.path)
    IN IF b.err # NoErr
       THEN [err |-> b.err, fs |-> f, log |-> <<Ev("DeleteClusterCredentials")>>]
       ELSE IF UnsafePath(p)
       THEN [err |-> NewError("unsafe-path"), fs |-> f, log |-> <<Ev("DeleteClusterCredentials")>>]
       ELSE IF IsNotExist(Stat(f, p))
       THEN [err |-> NoErr, fs |-> f, log |-> <<Ev("DeleteClusterCredentials")>>]
       ELSE IF IsNotExist(StatCA(f, p))
       THEN [err |-> NewError("no-ca.pem"), fs |-> f, log |-> <<Ev("DeleteClusterCredentials")>>]
       ELSE IF rm = "ok" /\ Stat(f, p) = "ok"
       THEN [err |-> NoErr, fs |-> RemoveAll(f, p),
             log |-> <<Ev("DeleteClusterCredentials"), EvS("RemoveAll", p)>>]
       ELSE [err |-> Wrap(NewError("remove-failed"), "Unable to delete the credentials on disk"),
             fs |-> RemoveAllFailed(f, p, rm = "failPartial"),
             log |-> <<Ev("DeleteClusterCredentials"), EvS("RemoveAll", p)>>]

RmOutcomes == {"ok", "fail", "failPartial"}

(***************************************************************************)
(* The make-coe service (MakeCOE)                                          *)
(***************************************************************************)
\* a MakeCOE value: client is "carina.client != nil"; cacheSet is
\* "carina.clusterTypeCache != nil", clusterTypeCache the map id -> name
NewService == [client |-> FALSE, cacheSet |-> FALSE, clusterTypeCache |-> <<>>]

NoCluster == [nil |-> TRUE, ID |-> "", Status |-> <<>>]
\* a cluster as the backend reports it
BackendCluster(status) == [nil |-> FALSE, ID |-> "c1", Status |-> status]
\* newCluster() with Status set to "deleted" (make-coe.go:189-190)
SynthesizedDeleted == [nil |-> FALSE, ID |-> "", Status |-> sDeleted]

\* what a backend call returning a cluster may answer
ClusterResps ==
    { [err |-> NoErr, cluster |-> BackendCluster(s)] : s \in Statuses }
    \cup { [err |-> e, cluster |-> NoCluster] : e \in BackendErrs }

\* a backend call and its answer, as logged
Call(e, resp) == [e |-> e, s |-> resp.cluster.Status, err |-> resp.err]

TemplateNames == { <<"K", "s">>, <<"K", "l">> }
Patterns ==
    { <<>>, <<"*">>, <<"K", "*">>, <<"k", "s">>, <<"*", "s">>, <<"N", "*">>, <<"?", "l">> }
Templates == { [ID |-> i, Name |-> n] : i \in 1..MaxID, n \in TemplateNames }

RECURSIVE SeqsUpTo(_, _)
\* the sequences over S of length at most n
SeqsUpTo(S, n) ==
    IF n = 0 THEN {<<>>}
    ELSE LET r == SeqsUpTo(S, n - 1)
         IN r \cup { Append(q, x) : q \in r, x \in S }

\* what ListClusterTypes may answer the template resolver
ListResps ==
    { [err |-> NoErr, types |-> l] : l \in SeqsUpTo(Templates, MaxListing) }
    \cup { [err |-> e, types |-> <<>>] : e \in BackendErrs }

\* what ListClusterTypes may answer inside a Client operation
ClientListResps ==
    { [err |-> NoErr, types |-> l] :
        l \in { <<>>, <<[ID |-> 1, Name |-> <<"K", "s">>]>>,
                <<[ID |-> 1, Name |-> <<"K", "s">>], [ID |-> 2, Name |-> <<"K", "l">>]>> } }
    \cup { [err |-> e, types |-> <<>>] : e \in BackendErrs }

\* init without the test for a client already there
initAlwaysAuthenticates(s, authOk) ==
    IF authOk
    THEN [svc |-> [s EXCEPT !.client = TRUE], err |-> NoErr, log |-> <<Ev("Authenticate")>>]
    ELSE [svc |-> s, err |-> AuthErr, log |-> <<EvErr("Authenticate", AuthErr)>>]

\* init keeping a handle from an Authenticate that failed
initMemoizesFailure(s, authOk) ==
    IF ~s.client
    THEN [svc |-> [s EXCEPT !.client = TRUE], err |-> IF authOk THEN NoErr ELSE AuthErr,
          log |-> <<IF authOk THEN Ev("Authenticate") ELSE EvErr("Authenticate", AuthErr)>>]
    ELSE [svc |-> s, err |-> NoErr, log |-> <<>>]

\* MakeCOE.init
init(s, authOk) ==
    IF ~s.client
    THEN IF authOk
         THEN [svc |-> [s EXCEPT !.client = TRUE], err |-> NoErr,
               log |-> <<Ev("Authenticate")>>]
         ELSE [svc |-> s, err |-> AuthErr, log |-> <<EvErr("Authenticate", AuthErr)>>]
    ELSE [svc |-> s, err |-> NoErr, log |-> <<>>]

\* MakeCOE.GetQuotas
GetQuotas(s) == [svc |-> s, err |-> NoErr, log |-> <<>>]

\* MakeCOE.listClusterTypes
listClusterTypes(resp) ==
    IF resp.err # NoErr
    THEN [types |-> <<>>,
          err |-> handleLibcarinaError(Wrap(resp.err, "Unabe to list cluster types")),
          log |-> <<EvErr("ListClusterTypes", resp.err)>>]
    ELSE [types |-> resp.types, err |-> NoErr, log |-> <<Ev("ListClusterTypes")>>]

RECURSIVE FillCache(_, _)
\* the loop of getClusterTypeCache: a later entry replaces an earlier one
\* with the same id
FillCache(m, types) ==
    IF types = <<>> THEN m
    ELSE FillCache((Head(types).ID :> Head(types).Name) @@ m, Tail(types))

\* getClusterTypeCache listing the cluster types on every call
getClusterTypeCacheAlwaysLists(s, resp) ==
    LET l == listClusterTypes(resp)
    IN IF l.err # NoErr
       THEN [svc |-> s, cache |-> <<>>, err |-> l.err, log |-> l.log]
       ELSE LET m == FillCache(<<>>, l.types)
            IN [svc |-> [s EXCEPT !.cacheSet = TRUE, !.clusterTypeCache = m],
                cache |-> m, err |-> NoErr, log |-> l.log]

\* MakeCOE.getClusterTypeCache
getClusterTypeCache(s, resp) ==
    IF ~s.cacheSet
    THEN LET l == listClusterTypes(resp)
         IN IF l.err # NoErr
            THEN [svc |-> s, cache |-> <<>>, err |-> l.err, log |-> l.log]
            ELSE LET m == FillCache(<<>>, l.types)
                 IN [svc |-> [s EXCEPT !.cacheSet = TRUE, !.clusterTypeCache = m],
                     cache |-> m, err |-> NoErr, log |-> l.log]
    ELSE [svc |-> s, cache |-> s.clusterTypeCache, err |-> NoErr, log |-> <<>>]

NoType == [ID |-> 0, Name |-> <<>>]

RECURSIVE MatchLoopFirstMatch(_, _, _, _)
\* MatchLoop keeping the first match it meets instead of reporting a second
MatchLoopFirstMatch(m, pattern, ids, found) ==
    IF ids = <<>>
    THEN IF found = 0
         THEN [type |-> NoType, err |-> ErrorNaming("Could not find template", pattern)]
         ELSE [type |-> [ID |-> found, Name |-> m[found]], err |-> NoErr]
    ELSE IF ~GlobI(pattern, m[Head(ids)])
         THEN MatchLoopFirstMatch(m, pattern, Tail(ids), found)
         ELSE IF found = 0
              THEN MatchLoopFirstMatch(m, pattern, Tail(ids), Head(ids))
              ELSE MatchLoopFirstMatch(m, pattern, Tail(ids), found)

RECURSIVE MatchLoop(_, _, _, _)
\* the loop of lookupClusterTypeByName over the ids still to visit; found is
\* the id held in clusterType, 0 while it is nil
MatchLoop(m, pattern, ids, found) ==
    IF ids = <<>>
    THEN IF found = 0
         THEN [type |-> NoType, err |-> ErrorNaming("Could not find template", pattern)]
         ELSE [type |-> [ID |-> found, Name |-> m[found]], err |-> NoErr]
    ELSE IF ~GlobI(pattern, m[Head(ids)])
         THEN MatchLoop(m, pattern, Tail(ids), found)
         ELSE IF found = 0
              THEN MatchLoop(m, pattern, Tail(ids), Head(ids))
              ELSE [type |-> NoType,
                    err |-> ErrorNaming("MultipleMatchingTemplatesError", pattern)]

\* the orders a range over a Go map may visit ids in: any order
IterationOrders == Permutations(1..MaxID)

\* MakeCOE.lookupClusterTypeByName; order is the order the range over the
\* cache happens to take
lookupClusterTypeByName(s, pattern, resp, order) ==
    LET c == getClusterTypeCache(s, resp)
    IN IF c.err # NoErr
       THEN [svc |-> c.svc, type |-> NoType, err |-> c.err, log |-> c.log]
       ELSE LET ids == SelectSeq(order, LAMBDA i : i \in DOMAIN c.cache)
                r == MatchLoop(c.cache, pattern, ids, 0)
            IN [svc |-> c.svc, type |-> r.type, err |-> r.err, log |-> c.log]

\* MakeCOE.CreateCluster
CreateCluster(s, template, authOk, listResp, order, resp) ==
    IF template = <<>>
    THEN [svc |-> s, cluster |-> NoCluster, err |-> NewError("--template is required"),
          log |-> <<>>]
    ELSE LET i == init(s, authOk)
         IN IF i.err # NoErr
            THEN [svc |-> i.svc, cluster |-> NoCluster, err |-> i.err, log |-> i.log]
            ELSE LET l == lookupClusterTypeByName(i.svc, template, listResp, order)
                 IN IF l.err # NoErr
                    THEN [svc |-> l.svc, cluster |-> NoCluster, err |-> l.err,
                          log |-> i.log \o l.log]
                    ELSE IF resp.err # NoErr
                    THEN [svc |-> l.svc, cluster |-> NoCluster,
                          err |-> handleLibcarinaError(Wrap(resp.err, "Unable to create cluster")),
                          log |-> i.log \o l.log \o <<Call("Create", resp)>>]
                    ELSE [svc |-> l.svc, cluster |-> resp.cluster, err |-> NoErr,
                          log |-> i.log \o l.log \o <<Call("Create", resp)>>]

\* the shape shared by GetCluster and ResizeCluster: init, one backend
\* call, the error wrapped with the operation and handed to
\* handleLibcarinaError
BackendClusterCall(s, what, context, authOk, resp) ==
    LET i == init(s, authOk)
    IN IF i.err # NoErr
       THEN [svc |-> i.svc, cluster |-> NoCluster, err |-> i.err, log |-> i.log]
       ELSE IF resp.err # NoErr
       THEN [svc |-> i.svc, cluster |-> NoCluster,
             err |-> handleLibcarinaError(Wrap(resp.err, context)),
             log |-> i.log \o <<Call(what, resp)>>]
       ELSE [svc |-> i.svc, cluster |-> resp.cluster, err |-> NoErr,
             log |-> i.log \o <<Call(what, resp)>>]

\* MakeCOE.GetCluster
GetCluster(s, authOk, resp) ==
    BackendClusterCall(s, "Get", "Unable to retrieve cluster", authOk, resp)

\* MakeCOE.ResizeCluster
ResizeCluster(s, authOk, resp) ==
    BackendClusterCall(s, "Resize", "Unable to resize cluster", authOk, resp)

\* MakeCOE.DeleteCluster without the special case for 404
DeleteClusterNotFoundIsError(s, authOk, resp) ==
    LET i == init(s, authOk)
    IN IF i.err # NoErr
       THEN [svc |-> i.svc, cluster |-> NoCluster, err |-> i.err, log |-> i.log]
       ELSE IF resp.err # NoErr
       THEN [svc |-> i.svc, cluster |-> NoCluster,
             err |-> handleLibcarinaError(Wrap(Cause(resp.err), "Unable to delete cluster")),
             log |-> i.log \o <<Call("Delete", resp)>>]
       ELSE [svc |-> i.svc, cluster |-> resp.cluster, err |-> NoErr,
             log |-> i.log \o <<Call("Delete", resp)>>]

\* MakeCOE.DeleteCluster
DeleteCluster(s, authOk, resp) ==
    LET i == init(s, authOk)
    IN IF i.err # NoErr
       THEN [svc |-> i.svc, cluster |-> NoCluster, err |-> i.err, log |-> i.log]
       ELSE IF resp.err # NoErr
       THEN LET cause == Cause(resp.err)
            IN IF cause.kind = "http" /\ cause.code = StatusNotFound
               THEN [svc |-> i.svc, cluster |-> SynthesizedDeleted, err |-> NoErr,
                     log |-> i.log \o <<Call("Delete", resp)>>]
               ELSE [svc |-> i.svc, cluster |-> NoCluster,
                     err |-> handleLibcarinaError(Wrap(cause, "Unable to delete cluster")),
                     log |-> i.log \o <<Call("Delete", resp)>>]
       ELSE [svc |-> i.svc, cluster |-> resp.cluster, err |-> NoErr,
             log |-> i.log \o <<Call("Delete", resp)>>]

\* GrowCluster emulated by a resize that the backend accepts
GrowClusterEmulated(s) ==
    [svc |-> s, cluster |-> BackendCluster(sBuilding), err |-> NoErr,
     log |-> <<EvS("Resize", sBuilding)>>]

\* MakeCOE.GrowCluster
GrowCluster(s) ==
    [svc |-> s, cluster |-> NoCluster, err |-> NewError("Grow command not supported"),
     log |-> <<>>]

\* MakeCOE.RebuildCluster
RebuildCluster(s) ==
    [svc |-> s, cluster |-> NoCluster, err |-> NewError("Rebuilding clusters is not supported"),
     log |-> <<>>]

\* MakeCOE.SetAutoScale
SetAutoScale(s) ==
    [svc |-> s, cluster |-> NoCluster, err |-> NewError("make-coe does not support autoscaling"),
     log |-> <<>>]

\* what List and GetCredentials may answer: success or an error
PlainResps ==
    { [err |-> NoErr, cluster |-> NoCluster] }
    \cup { [err |-> e, cluster |-> NoCluster] : e \in BackendErrs }

\* MakeCOE.ListClusters
ListClusters(s, authOk, resp) ==
    BackendClusterCall(s, "List", "Unable to list clusters", authOk, resp)

\* MakeCOE.GetClusterCredentials
GetClusterCredentials(s, authOk, resp) ==
    BackendClusterCall(s, "GetCredentials", "Unable to retrieve the cluster credentials",
                       authOk, resp)

\* MakeCOE.ListClusterTemplates
ListClusterTemplates(s, authOk, resp) ==
    LET i == init(s, authOk)
    IN IF i.err # NoErr
       THEN [svc |-> i.svc, types |-> <<>>, err |-> i.err, log |-> i.log]
       ELSE LET l == listClusterTypes(resp)
            IN [svc |-> i.svc, types |-> l.types, err |-> l.err, log |-> i.log \o l.log]

\* isDoneActive comparing the status as the backend spells it
isDoneActiveCaseSensitive(c) == c.Status = sActive \/ c.Status = sError

\* isDoneActive taking "active" for the only terminal status
isDoneActiveOnly(c) == ToLower(c.Status) = sActive

\* isDone of WaitUntilClusterIsActive
isDoneActive(c) ==
    LET status == ToLower(c.Status)
    IN status = sActive \/ status = sError

\* isDoneDeleted taking "error" for the end of a deletion that went well
isDoneDeletedErrorIsDone(c) ==
    [done |-> ToLower(c.Status) \in {sDeleted, sError}, err |-> NoErr]

\* isDone of WaitUntilClusterIsDeleted
isDoneDeleted(c) ==
    LET status == ToLower(c.Status)
    IN IF status = sError
       THEN [done |-> TRUE, err |-> NewError("Unable to delete cluster, an error occured while deleting.")]
       ELSE [done |-> status = sDeleted, err |-> NoErr]

(***************************************************************************)
(* The Client                                                              *)
(***************************************************************************)
PathChars == {"/", ".", "a"}
Paths == SeqsUpTo(PathChars, MaxPathLen)
ClusterNames == { <<"a">>, <<".", ".">> }
\* the override directories a caller downloads credentials to
DownloadPaths == { <<>>, Root, Cwd, <<"/", "a">> }

NoOp ==
    [layer |-> "none", name |-> "", account |-> CHOOSE a \in Accounts : a.credDir = Root,
     token |-> <<>>, customPath |-> <<>>, wait |-> FALSE]
ClientOp(name, account, token, customPath, wait) ==
    [layer |-> "client", name |-> name, account |-> account, token |-> token,
     customPath |-> customPath, wait |-> wait]
ServiceOp(name) == [NoOp EXCEPT !.layer = "service", !.name = name]

NoRet == [cluster |-> NoCluster, err |-> NoErr, val |-> <<>>]

\* buildContainerService hydrating the account after the service is built
buildContainerServiceAppliesLate ==
    [svc |-> NewService, err |-> NoErr,
     log |-> <<Ev("NewClusterService"), Ev("Cache.apply")>>]

\* Client.buildContainerService: Cache.apply, then account.NewClusterService()
buildContainerService ==
    [svc |-> NewService, err |-> NoErr,
     log |-> <<Ev("Cache.apply"), Ev("NewClusterService")>>]

\* a return that runs no deferred save
deferSaveAccountMissing(lg) == lg

\* "defer client.Cache.SaveAccount(account)": runs as the function returns
deferSaveAccount(lg) == Append(lg, Ev("Cache.SaveAccount"))

\* the events of lg after its last event named e
After(lg, e) ==
    IF lg = <<>> THEN <<>>
    ELSE IF \E i \in 1..Len(lg) : lg[i].e = e
         THEN LET k == CHOOSE i \in 1..Len(lg) :
                           lg[i].e = e /\ \A j \in (i + 1)..Len(lg) : lg[j].e # e
              IN SubSeq(lg, k + 1, Len(lg))
         ELSE lg

Count(lg, e) == Cardinality({ i \in 1..Len(lg) : lg[i].e = e })

\* a function returns: the caller is handed c, e, v; w is the cluster a wait
\* was called with, NoCluster if the operation did not wait
Returned(opr, s, w, c, e, v, lg, f) ==
    /\ pc' = "done"
    /\ op' = opr
    /\ svc' = s
    /\ cluster' = w
    /\ ret' = [cluster |-> c, err |-> e, val |-> v]
    /\ log' = lg
    /\ fs' = f
    /\ client' = client
    /\ authFailed' = (opr.layer = "service" /\ authFailed)

\* the caller is inside a polling loop called with cluster c
Polling(opr, where, s, c, lg) ==
    /\ pc' = where
    /\ op' = opr
    /\ svc' = s
    /\ cluster' = c
    /\ ret' = NoRet
    /\ log' = lg
    /\ fs' = fs
    /\ client' = client
    /\ authFailed' = (opr.layer = "service" /\ authFailed)

\* WaitUntilClusterIsActive returned (c, e): a Client operation hands it on
\* and runs its deferred save, a direct caller just gets it
FinishActive(opr, s, w, c, e, lg) ==
    IF opr.layer = "client"
    THEN Returned(opr, s, w, c, wrapClientError(e), <<>>, deferSaveAccount(lg), fs)
    ELSE Returned(opr, s, w, c, e, <<>>, lg, fs)

\* WaitUntilClusterIsActive up to its loop (make-coe.go:233-241)
WaitUntilClusterIsActive(opr, s, c, lg) ==
    LET lg2 == Append(lg, EvS("WaitUntilClusterIsActive", c.Status))
    IN IF isDoneActive(c)
       THEN FinishActive(opr, s, c, c, NoErr, lg2)
       ELSE Polling(opr, "waitActive", s, c, lg2)

\* stepActive testing the cluster the wait was called with instead of the
\* snapshot just fetched
stepActiveStale(g) ==
    IF g.err # NoErr THEN [done |-> TRUE, cluster |-> NoCluster, err |-> g.err]
    ELSE IF isDoneActive(cluster) THEN [done |-> TRUE, cluster |-> g.cluster, err |-> NoErr]
    ELSE [done |-> FALSE, cluster |-> NoCluster, err |-> NoErr]

\* stepActive fetching again after a failed fetch
stepActiveRetries(g) ==
    IF g.err # NoErr THEN [done |-> FALSE, cluster |-> NoCluster, err |-> NoErr]
    ELSE IF isDoneActive(g.cluster) THEN [done |-> TRUE, cluster |-> g.cluster, err |-> NoErr]
    ELSE [done |-> FALSE, cluster |-> NoCluster, err |-> NoErr]

\* stepActive giving up on a cluster that is still pending
stepActiveGivesUp(g) ==
    IF g.err # NoErr THEN [done |-> TRUE, cluster |-> NoCluster, err |-> g.err]
    ELSE IF isDoneActive(g.cluster) THEN [done |-> TRUE, cluster |-> g.cluster, err |-> NoErr]
    ELSE [done |-> TRUE, cluster |-> NoCluster, err |-> NewError("timed out")]

\* one iteration of the loop of WaitUntilClusterIsActive, given what
\* GetCluster returned
stepActive(g) ==
    IF g.err # NoErr THEN [done |-> TRUE, cluster |-> NoCluster, err |-> g.err]
    ELSE IF isDoneActive(g.cluster) THEN [done |-> TRUE, cluster |-> g.cluster, err |-> NoErr]
    ELSE [done |-> FALSE, cluster |-> NoCluster, err |-> NoErr]

\* stepDeleted returning every fetch error, 404 included
stepDeletedNotFoundIsError(g) ==
    IF g.err # NoErr THEN [done |-> TRUE, err |-> g.err]
    ELSE isDoneDeleted(g.cluster)

\* one iteration of the loop of WaitUntilClusterIsDeleted, given what
\* GetCluster returned
stepDeleted(g) ==
    IF g.err # NoErr
    THEN LET cause == Cause(g.err)
         IN IF cause.kind = "http" /\ cause.code = StatusNotFound
            THEN [done |-> TRUE, err |-> NoErr]
            ELSE [done |-> TRUE, err |-> g.err]
    ELSE isDoneDeleted(g.cluster)

\* DeleteClusterTail removing the credentials whatever the delete and the
\* wait returned
DeleteClusterTailAlwaysCleans(opr, s, w, e, lg, rm) ==
    LET d == DeleteClusterCredentials(fs, opr.account, opr.token, <<>>, rm)
    IN Returned(opr, s, w, NoCluster, wrapClientError(IF e = NoErr THEN d.err ELSE e), <<>>,
                deferSaveAccount(lg \o d.log), d.fs)

\* the rest of Client.DeleteCluster once the delete and the wait are over
\* with error e (part_001:315-319)
DeleteClusterTail(opr, s, w, e, lg, rm) ==
    IF e = NoErr
    THEN LET d == DeleteClusterCredentials(fs, opr.account, opr.token, <<>>, rm)
         IN Returned(opr, s, w, NoCluster, wrapClientError(d.err), <<>>,
                     deferSaveAccount(lg \o d.log), d.fs)
    ELSE Returned(opr, s, w, NoCluster, wrapClientError(e), <<>>, deferSaveAccount(lg), fs)

\* WaitUntilClusterIsDeleted returned e
FinishDeleted(opr, s, w, e, lg, rm) ==
    IF opr.layer = "client"
    THEN DeleteClusterTail(opr, s, w, e, lg, rm)
    ELSE Returned(opr, s, w, NoCluster, e, <<>>, lg, fs)

\* WaitUntilClusterIsDeleted up to its loop (make-coe.go:260-271)
WaitUntilClusterIsDeleted(opr, s, c, lg, rm) ==
    LET lg2 == Append(lg, EvS("WaitUntilClusterIsDeleted", c.Status))
        d == isDoneDeleted(c)
    IN IF d.done
       THEN FinishDeleted(opr, s, c, d.err, lg2, rm)
       ELSE Polling(opr, "waitDeleted", s, c, lg2)

Callable == pc = "idle"

\* the backend answers only when it is asked: with the cache filled no
\* listing call is made
ListRespsFor(s) == IF s.cacheSet THEN { [err |-> NoErr, types |-> <<>>] } ELSE ListResps

\* Account.Authenticate answers only when it is asked
AuthOutcomesFor(s) == IF s.client THEN {TRUE} ELSE BOOLEAN

\* templates a Client caller asks for, and listings the backend answers with
ClientPatterns == { <<>>, <<"K", "*">>, <<"k", "s">> }

\* ClusterOpTail waiting after every call that succeeded, asked or not
ClusterOpTailAlwaysWaits(opr, r, lg) ==
    IF r.err = NoErr
    THEN WaitUntilClusterIsActive(opr, r.svc, r.cluster, lg)
    ELSE Returned(opr, r.svc, NoCluster, r.cluster, wrapClientError(r.err), <<>>,
                  deferSaveAccount(lg), fs)

\* the common end of CreateCluster, GetCluster, GrowCluster, ResizeCluster
\* and RebuildCluster of the Client: wait if asked and the call succeeded
ClusterOpTail(opr, r, lg) ==
    IF opr.wait /\ r.err = NoErr
    THEN WaitUntilClusterIsActive(opr, r.svc, r.cluster, lg)
    ELSE Returned(opr, r.svc, NoCluster, r.cluster, wrapClientError(r.err), <<>>,
                  deferSaveAccount(lg), fs)

\* Client.GetQuotas
ClientGetQuotas ==
    /\ Callable
    /\ LET b == buildContainerService
           q == GetQuotas(b.svc)
       IN Returned(ClientOp("GetQuotas", NoOp.account, <<>>, <<>>, FALSE), q.svc, NoCluster,
                   NoCluster, wrapClientError(q.err), <<>>, deferSaveAccount(b.log \o q.log), fs)
    /\ fs0' = fs

\* Client.CreateCluster
ClientCreateCluster ==
    /\ Callable
    /\ \E template \in ClientPatterns, wait \in BOOLEAN, authOk \in BOOLEAN,
          listResp \in ClientListResps, order \in IterationOrders,
          resp \in ClusterResps :
         LET b == buildContainerService
             r == CreateCluster(b.svc, template, authOk, listResp, order, resp)
         IN ClusterOpTail(ClientOp("CreateCluster", NoOp.account, <<"a">>, <<>>, wait),
                          r, b.log \o r.log)
    /\ fs0' = fs

\* Client.GetCluster
ClientGetCluster ==
    /\ Callable
    /\ \E wait \in BOOLEAN, authOk \in BOOLEAN, resp \in ClusterResps :
         LET b == buildContainerService
             r == GetCluster(b.svc, authOk, resp)
         IN ClusterOpTail(ClientOp("GetCluster", NoOp.account, <<"a">>, <<>>, wait),
                          r, b.log \o r.log)
    /\ fs0' = fs

\* Client.GrowCluster
ClientGrowCluster ==
    /\ Callable
    /\ \E wait \in BOOLEAN :
         LET b == buildContainerService
             r == GrowCluster(b.svc)
         IN ClusterOpTail(ClientOp("GrowCluster", NoOp.account, <<"a">>, <<>>, wait),
                          r, b.log \o r.log)
    /\ fs0' = fs

\* Client.ResizeCluster
ClientResizeCluster ==
    /\ Callable
    /\ \E wait \in BOOLEAN, authOk \in BOOLEAN, resp \in ClusterResps :
         LET b == buildContainerService
             r == ResizeCluster(b.svc, authOk, resp)
         IN ClusterOpTail(ClientOp("ResizeCluster", NoOp.account, <<"a">>, <<>>, wait),
                          r, b.log \o r.log)
    /\ fs0' = fs

\* Client.RebuildCluster
ClientRebuildCluster ==
    /\ Callable
    /\ \E wait \in BOOLEAN :
         LET b == buildContainerService
             r == RebuildCluster(b.svc)
         IN ClusterOpTail(ClientOp("RebuildCluster", NoOp.account, <<"a">>, <<>>, wait),
                          r, b.log \o r.log)
    /\ fs0' = fs

\* Client.SetAutoScale
ClientSetAutoScale ==
    /\ Callable
    /\ LET b == buildContainerService
           r == SetAutoScale(b.svc)
       IN Returned(ClientOp("SetAutoScale", NoOp.account, <<"a">>, <<>>, FALSE), r.svc,
                   NoCluster, r.cluster, wrapClientError(r.err), <<>>,
                   deferSaveAccount(b.log \o r.log), fs)
    /\ fs0' = fs

\* Client.ListClusters
ClientListClusters ==
    /\ Callable
    /\ \E authOk \in BOOLEAN, resp \in PlainResps :
         LET b == buildContainerService
             r == ListClusters(b.svc, authOk, resp)
         IN Returned(ClientOp("ListClusters", NoOp.account, <<>>, <<>>, FALSE), r.svc,
                     NoCluster, NoCluster, wrapClientError(r.err), <<>>,
                     deferSaveAccount(b.log \o r.log), fs)
    /\ fs0' = fs

\* Client.ListClusterTemplates; the filter uses the case-sensitive glob.Glob
ClientListClusterTemplates ==
    /\ Callable
    /\ \E nameFilter \in ClientPatterns, authOk \in BOOLEAN,
          resp \in ClientListResps :
         LET b == buildContainerService
             r == ListClusterTemplates(b.svc, authOk, resp)
             templates ==
                 IF r.err = NoErr /\ nameFilter # <<>>
                 THEN SelectSeq(r.types, LAMBDA x : Glob(nameFilter, x.Name))
                 ELSE r.types
         IN Returned(ClientOp("ListClusterTemplates", NoOp.account, nameFilter, <<>>, FALSE),
                     r.svc, NoCluster, NoCluster, wrapClientError(r.err), templates,
                     deferSaveAccount(b.log \o r.log), fs)
    /\ fs0' = fs

\* Client.DeleteCluster
ClientDeleteCluster ==
    /\ Callable
    /\ \E account \in Accounts, name \in ClusterNames, wait \in BOOLEAN,
          authOk \in BOOLEAN, resp \in ClusterResps, rm \in RmOutcomes :
         LET b == buildContainerService
             d == DeleteCluster(b.svc, authOk, resp)
             opr == ClientOp("DeleteCluster", account, name, <<>>, wait)
         IN IF wait /\ d.err = NoErr
            THEN WaitUntilClusterIsDeleted(opr, d.svc, d.cluster, b.log \o d.log, rm)
            ELSE DeleteClusterTail(opr, d.svc, NoCluster, d.err, b.log \o d.log, rm)
    /\ fs0' = fs

\* Client.DeleteClusterCredentials, called by itself
ClientDeleteClusterCredentials ==
    /\ Callable
    /\ \E account \in Accounts, name \in ClusterNames, customPath \in Paths,
          rm \in RmOutcomes :
         LET d == DeleteClusterCredentials(fs, account, name, customPath, rm)
         IN Returned(ClientOp("DeleteClusterCredentials", account, name, customPath, FALSE),
                     svc, NoCluster, NoCluster, d.err, <<>>, d.log, d.fs)
    /\ fs0' = fs

\* one pass of the loop of WaitUntilClusterIsActive (make-coe.go:244-256)
PollActive ==
    /\ pc = "waitActive"
    /\ Count(After(log, "WaitUntilClusterIsActive"), "Get") < MaxPolls
    /\ \E authOk \in AuthOutcomesFor(svc), resp \in ClusterResps :
         LET g == GetCluster(svc, authOk, resp)
             st == stepActive(g)
         IN IF st.done
            THEN FinishActive(op, g.svc, cluster, st.cluster, st.err, log \o g.log)
            ELSE Polling(op, "waitActive", g.svc, cluster, log \o g.log)
    /\ fs0' = fs0

\* one pass of the loop of WaitUntilClusterIsDeleted (make-coe.go:274-295)
PollDeleted ==
    /\ pc = "waitDeleted"
    /\ Count(After(log, "WaitUntilClusterIsDeleted"), "Get") < MaxPolls
    /\ \E authOk \in AuthOutcomesFor(svc), resp \in ClusterResps, rm \in RmOutcomes :
         LET g == GetCluster(svc, authOk, resp)
             st == stepDeleted(g)
         IN IF st.done
            THEN FinishDeleted(op, g.svc, cluster, st.err, log \o g.log, rm)
            ELSE Polling(op, "waitDeleted", g.svc, cluster, log \o g.log)
    /\ fs0' = fs0

\* a caller constructs a service of its own: account.NewClusterService()
NewClusterService ==
    /\ Callable
    /\ pc' = "idle"
    /\ svc' = NewService
    /\ op' = NoOp
    /\ cluster' = NoCluster
    /\ ret' = NoRet
    /\ log' = <<>>
    /\ authFailed' = FALSE
    /\ UNCHANGED <<fs, fs0, client>>

\* the clusters a caller may hold
Clusters == { BackendCluster(s) : s \in Statuses } \cup { SynthesizedDeleted }

\* MakeCOE.WaitUntilClusterIsActive called on the service directly
ServiceWaitUntilClusterIsActive ==
    /\ Callable
    /\ \E c \in Clusters :
         WaitUntilClusterIsActive(ServiceOp("WaitUntilClusterIsActive"), svc, c, <<>>)
    /\ fs0' = fs

\* MakeCOE.WaitUntilClusterIsDeleted called on the service directly
ServiceWaitUntilClusterIsDeleted ==
    /\ Callable
    /\ \E c \in Clusters :
         WaitUntilClusterIsDeleted(ServiceOp("WaitUntilClusterIsDeleted"), svc, c, <<>>, "ok")
    /\ fs0' = fs

\* an operation of the service, called on the instance directly, returns r
ServiceReturned(name, r) ==
    Returned(ServiceOp(name), r.svc, NoCluster, r.cluster, r.err, <<>>, r.log, fs)

\* MakeCOE.GetCluster called on the service directly
ServiceGetCluster ==
    /\ Callable
    /\ \E authOk \in AuthOutcomesFor(svc), resp \in ClusterResps :
         ServiceReturned("GetCluster", GetCluster(svc, authOk, resp))
    /\ fs0' = fs

\* MakeCOE.ResizeCluster called on the service directly
ServiceResizeCluster ==
    /\ Callable
    /\ \E authOk \in AuthOutcomesFor(svc), resp \in ClusterResps :
         ServiceReturned("ResizeCluster", ResizeCluster(svc, authOk, resp))
    /\ fs0' = fs

\* MakeCOE.DeleteCluster called on the service directly
ServiceDeleteCluster ==
    /\ Callable
    /\ \E authOk \in AuthOutcomesFor(svc), resp \in ClusterResps :
         ServiceReturned("DeleteCluster", DeleteCluster(svc, authOk, resp))
    /\ fs0' = fs

\* MakeCOE.ListClusters called on the service directly
ServiceListClusters ==
    /\ Callable
    /\ \E authOk \in AuthOutcomesFor(svc), resp \in PlainResps :
         ServiceReturned("ListClusters", ListClusters(svc, authOk, resp))
    /\ fs0' = fs

\* MakeCOE.GetClusterCredentials called on the service directly
ServiceGetClusterCredentials ==
    /\ Callable
    /\ \E authOk \in AuthOutcomesFor(svc), resp \in PlainResps :
         ServiceReturned("GetClusterCredentials", GetClusterCredentials(svc, authOk, resp))
    /\ fs0' = fs

\* MakeCOE.ListClusterTemplates called on the service directly
ServiceListClusterTemplates ==
    /\ Callable
    /\ \E authOk \in AuthOutcomesFor(svc), resp \in ClientListResps :
         LET r == ListClusterTemplates(svc, authOk, resp)
         IN Returned(ServiceOp("ListClusterTemplates"), r.svc, NoCluster, NoCluster,
                     r.err, r.types, r.log, fs)
    /\ fs0' = fs

\* MakeCOE.GetQuotas called on the service directly
ServiceGetQuotas ==
    /\ Callable
    /\ LET q == GetQuotas(svc)
       IN Returned(ServiceOp("GetQuotas"), q.svc, NoCluster, NoCluster, q.err, <<>>, q.log, fs)
    /\ fs0' = fs

\* MakeCOE.GrowCluster called on the service directly
ServiceGrowCluster ==
    /\ Callable
    /\ ServiceReturned("GrowCluster", GrowCluster(svc))
    /\ fs0' = fs

\* MakeCOE.RebuildCluster called on the service directly
ServiceRebuildCluster ==
    /\ Callable
    /\ ServiceReturned("RebuildCluster", RebuildCluster(svc))
    /\ fs0' = fs

\* MakeCOE.SetAutoScale called on the service directly
ServiceSetAutoScale ==
    /\ Callable
    /\ ServiceReturned("SetAutoScale", SetAutoScale(svc))
    /\ fs0' = fs

(***************************************************************************)
(* Credentials on disk                                                     *)
(***************************************************************************)
\* os.MkdirAll(path)
MkdirAll(f, p) ==
    IF Clean(p) \in FsDirs /\ f[Clean(p)] = "absent"
    THEN [f EXCEPT ![Clean(p)] = "dir"] ELSE f

\* the loop writing the bundle's files under path; hasCA: the bundle holds
\* ca.pem
WriteFiles(f, p, hasCA) ==
    IF Clean(p) \in FsDirs /\ hasCA THEN [f EXCEPT ![Clean(p)] = "creds"] ELSE f

IoOutcomes == {"ok", "mkdirFail", "writeFail"}

\* Client.DownloadClusterCredentials, its deferred save included
DownloadClusterCredentials(f, account, name, customPath, authOk, resp, hasCA, io) ==
    LET b == buildContainerService
        c == GetClusterCredentials(b.svc, authOk, resp)
        p == buildClusterCredentialsPath(account, name, customPath)
        lg == b.log \o c.log
    IN IF c.err # NoErr
       THEN [svc |-> c.svc, path |-> <<>>, err |-> wrapClientError(c.err), fs |-> f,
             log |-> deferSaveAccount(lg)]
       ELSE IF p.err # NoErr
       THEN [svc |-> c.svc, path |-> <<>>,
             err |-> Wrap(p.err, "Unable to save downloaded cluster credentials"),
             fs |-> f, log |-> deferSaveAccount(lg)]
       ELSE IF p.path # Cwd /\ (io = "mkdirFail" \/ IsFile(f, p.path))
       THEN [svc |-> c.svc, path |-> <<>>, err |-> NewError("mkdir failed"), fs |-> f,
             log |-> deferSaveAccount(Append(lg, EvOk("MkdirAll", FALSE)))]
       ELSE LET made == IF p.path # Cwd THEN MkdirAll(f, p.path) ELSE f
                lg2 == IF p.path # Cwd THEN Append(lg, EvS("MkdirAll", p.path)) ELSE lg
            IN IF io = "writeFail"
               THEN [svc |-> c.svc, path |-> <<>>, err |-> NewError("write failed"),
                     fs |-> made,
                     log |-> deferSaveAccount(Append(lg2, EvOk("WriteFile", FALSE)))]
               ELSE [svc |-> c.svc, path |-> p.path, err |-> NoErr,
                     fs |-> WriteFiles(made, p.path, hasCA),
                     log |-> deferSaveAccount(Append(lg2, EvS("WriteFile", p.path)))]

\* the credentials paths the model's filesystem can hold
OnDisk(account, name, customPath) ==
    Clean(buildClusterCredentialsPath(account, name, customPath).path) \in FsDirs

\* Client.DownloadClusterCredentials
ClientDownloadClusterCredentials ==
    /\ Callable
    /\ \E account \in Accounts, name \in ClusterNames, customPath \in DownloadPaths,
          authOk \in BOOLEAN, resp \in PlainResps, hasCA \in BOOLEAN, io \in IoOutcomes :
         /\ OnDisk(account, name, customPath)
         /\ LET d == DownloadClusterCredentials(fs, account, name, customPath, authOk,
                                                resp, hasCA, io)
            IN Returned(ClientOp("DownloadClusterCredentials", account, name, customPath, FALSE),
                        d.svc, NoCluster, NoCluster, d.err, d.path, d.log, d.fs)
    /\ fs0' = fs

\* the end of Client.GetSourceCommand, from getCredentialScriptPath on;
\* scriptOk: getCredentialScriptPath knows the shell
SourceCommandTail(opr, s, path, lg, f, scriptOk) ==
    IF ~scriptOk
    THEN Returned(opr, s, NoCluster, NoCluster, NewError("Invalid shell"), <<>>,
                  Append(lg, EvOk("getCredentialScriptPath", FALSE)), f)
    ELSE Returned(opr, s, NoCluster, NoCluster, NoErr, path,
                  Append(lg, EvOk("getCredentialScriptPath", TRUE)), f)

\* Client.GetSourceCommand when creds.Verify() accepts the bundle on disk,
\* which it can only do if ca.pem is there
ClientGetSourceCommandValid ==
    /\ Callable
    /\ \E account \in Accounts, name \in ClusterNames, customPath \in DownloadPaths,
          scriptOk \in BOOLEAN :
         LET p == buildClusterCredentialsPath(account, name, customPath)
         IN /\ OnDisk(account, name, customPath)
            /\ HasCA(fs, p.path)
            /\ SourceCommandTail(ClientOp("GetSourceCommand", account, name, customPath, FALSE),
                                 svc, p.path, <<EvOk("Verify", TRUE)>>, fs, scriptOk)
    /\ fs0' = fs

\* Client.GetSourceCommand when creds.Verify() rejects the bundle on disk
ClientGetSourceCommandInvalid ==
    /\ Callable
    /\ \E account \in Accounts, name \in ClusterNames, customPath \in DownloadPaths,
          authOk \in BOOLEAN, resp \in PlainResps, hasCA \in BOOLEAN,
          io \in IoOutcomes, scriptOk \in BOOLEAN :
         LET opr == ClientOp("GetSourceCommand", account, name, customPath, FALSE)
             d == DownloadClusterCredentials(fs, account, name, customPath, authOk,
                                             resp, hasCA, io)
             lg == <<EvOk("Verify", FALSE)>> \o d.log
         IN /\ OnDisk(account, name, customPath)
            /\ IF d.err # NoErr
               THEN Returned(opr, d.svc, NoCluster, NoCluster, d.err, <<>>, lg, d.fs)
               ELSE SourceCommandTail(opr, d.svc, d.path, lg, d.fs, scriptOk)
    /\ fs0' = fs

\* the caller takes the result and moves on; the service a Client operation
\* built goes out of scope with it
Return ==
    /\ pc = "done"
    /\ pc' = "idle"
    /\ op' = NoOp
    /\ svc' = IF op.layer = "client" THEN NewService ELSE svc
    /\ cluster' = NoCluster
    /\ ret' = NoRet
    /\ log' = <<>>
    /\ fs0' = fs
    /\ authFailed' =
         /\ op.layer = "service"
         /\ \/ authFailed
            \/ \E i \in 1..Len(log) : log[i].e = "Authenticate" /\ log[i].err # NoErr
    /\ UNCHANGED <<fs, client>>

(***************************************************************************)
(* Construction of the Client                                              *)
(***************************************************************************)
\* *Cache: nil, or a cache with the file it persists to ("" for none)
NilCache == [nil |-> TRUE, path |-> <<>>]
\* &Cache{}
EmptyCache == [nil |-> FALSE, path |-> <<>>]
\* newCache(path)
newCache(path) == [nil |-> FALSE, path |-> path]

\* &Client{}
ZeroClient == [Cache |-> NilCache, Error |-> NoErr]

\* CacheUnavailableError{cause: err}
CacheUnavailableError(err) ==
    [kind |-> "CacheUnavailableError", code |-> 0, arg |-> <<err.kind>> \o err.ctx, ctx |-> <<>>]

\* the directory GetCredentialsDir resolves and the file defaultCacheFilename
\* names in it
CredentialsDir == <<"/", "a">>
CacheFilename == CredentialsDir \o <<"/", "c">>

\* disableCache recording the error and leaving the cache as it is
disableCacheKeepsCache(c, err) == [c EXCEPT !.Error = CacheUnavailableError(err)]

\* disableCache inside initCache
disableCache(c, err) == [c EXCEPT !.Cache = EmptyCache, !.Error = CacheUnavailableError(err)]

\* Client.initCache; the flags say which of its steps succeed
initCache(c, f, cacheEnabled, dirOk, mkdirOk, fileOk, loadOk) ==
    IF ~cacheEnabled
    THEN [client |-> [c EXCEPT !.Cache = EmptyCache], fs |-> f, log |-> <<>>]
    ELSE IF ~dirOk
    THEN [client |-> disableCache(c, NewError("no-home")), fs |-> f,
          log |-> <<EvErr("GetCredentialsDir", NewError("no-home"))>>]
    ELSE IF ~mkdirOk \/ IsFile(f, CredentialsDir)
    THEN [client |-> disableCache(c, Wrap(NewError("mkdir failed"),
                                          "Unable to create cache directory")),
          fs |-> f,
          log |-> <<Ev("GetCredentialsDir"), EvErr("MkdirAll", NewError("mkdir failed"))>>]
    ELSE LET made == [f EXCEPT ![CredentialsDir] = IF @ = "absent" THEN "dir" ELSE @]
             lg == <<Ev("GetCredentialsDir"), EvS("MkdirAll", CredentialsDir)>>
         IN IF ~fileOk
            THEN [client |-> disableCache(c, NewError("no cache file name")), fs |-> made,
                  log |-> Append(lg, EvErr("defaultCacheFilename", NewError("no cache file name")))]
            ELSE IF ~loadOk
            THEN [client |-> disableCache([c EXCEPT !.Cache = newCache(CacheFilename)],
                                          NewError("load failed")),
                  fs |-> made,
                  log |-> lg \o <<Ev("defaultCacheFilename"),
                                  EvErr("load", NewError("load failed"))>>]
            ELSE [client |-> [c EXCEPT !.Cache = newCache(CacheFilename)], fs |-> made,
                  log |-> lg \o <<Ev("defaultCacheFilename"), Ev("load")>>]

\* NewClient(cacheEnabled)
NewClient ==
    /\ Callable
    /\ client = ZeroClient
    /\ \E cacheEnabled, dirOk, mkdirOk, fileOk, loadOk \in BOOLEAN :
         LET i == initCache(ZeroClient, fs, cacheEnabled, dirOk, mkdirOk, fileOk, loadOk)
         IN /\ client' = i.client
            /\ fs' = i.fs
            /\ log' = i.log
            /\ op' = ClientOp("NewClient", NoOp.account, <<>>, <<>>, FALSE)
    /\ pc' = "done"
    /\ fs0' = fs
    /\ UNCHANGED <<svc, cluster, ret, authFailed>>

\* the Client a process works with: the cache enabled and loaded
LoadedClient == [Cache |-> newCache(CacheFilename), Error |-> NoErr]

(***************************************************************************)
(* The specification of the Client and the service it drives               *)
(***************************************************************************)
Init ==
    /\ pc = "idle"
    /\ op = NoOp
    /\ svc = NewService
    /\ cluster = NoCluster
    /\ log = <<>>
    /\ ret = NoRet
    /\ fs \in FsStates
    /\ fs0 = fs
    /\ client = LoadedClient
    /\ authFailed = FALSE

Next ==
    \/ ClientGetQuotas
    \/ ClientCreateCluster
    \/ ClientDownloadClusterCredentials
    \/ ClientGetSourceCommandValid
    \/ ClientGetSourceCommandInvalid
    \/ ClientListClusters
    \/ ClientListClusterTemplates
    \/ ClientGetCluster
    \/ ClientGrowCluster
    \/ ClientResizeCluster
    \/ ClientRebuildCluster
    \/ ClientSetAutoScale
    \/ ClientDeleteCluster
    \/ ClientDeleteClusterCredentials
    \/ NewClusterService
    \/ ServiceWaitUntilClusterIsActive
    \/ ServiceWaitUntilClusterIsDeleted
    \/ ServiceGetCluster
    \/ ServiceResizeCluster
    \/ ServiceDeleteCluster
    \/ ServiceListClusters
    \/ ServiceGetClusterCredentials
    \/ ServiceListClusterTemplates
    \/ ServiceGetQuotas
    \/ ServiceGrowCluster
    \/ ServiceRebuildCluster
    \/ ServiceSetAutoScale
    \/ PollActive
    \/ PollDeleted
    \/ Return

Spec == Init /\ [][Next]_vars

(***************************************************************************)
(* The template resolver by itself: lookupClusterTypeByName called over    *)
(* and over on an authenticated service, as CreateCluster calls it         *)
(***************************************************************************)
AuthenticatedService == [NewService EXCEPT !.client = TRUE]

InitResolver ==
    /\ pc = "idle"
    /\ op = NoOp
    /\ svc = AuthenticatedService
    /\ cluster = NoCluster
    /\ log = <<>>
    /\ ret = NoRet
    /\ fs = [d \in FsDirs |-> IF d = <<"/", "a">> THEN "absent" ELSE "dir"]
    /\ fs0 = fs
    /\ client = LoadedClient
    /\ authFailed = FALSE

\* one call of lookupClusterTypeByName(pattern)
Resolve ==
    /\ \E pattern \in Patterns, resp \in ListRespsFor(svc), order \in IterationOrders :
         LET r == lookupClusterTypeByName(svc, pattern, resp, order)
         IN /\ svc' = r.svc
            /\ op' = [ServiceOp("lookupClusterTypeByName") EXCEPT !.token = pattern]
            /\ ret' = [cluster |-> NoCluster, err |-> r.err, val |-> r.type]
            /\ log' = r.log
    /\ UNCHANGED <<pc, cluster, fs, fs0, client, authFailed>>

\* the caller turns to another authenticated service
ResolverNewService ==
    /\ svc' = AuthenticatedService
    /\ op' = NoOp
    /\ ret' = NoRet
    /\ log' = <<>>
    /\ UNCHANGED <<pc, cluster, fs, fs0, client, authFailed>>

NextResolver == Resolve \/ ResolverNewService

SpecResolver == InitResolver /\ [][NextResolver]_vars

(***************************************************************************)
(* The waiters by themselves, polling for as long as the backend makes     *)
(* them: the log keeps the call of the waiter and the latest fetch only    *)
(***************************************************************************)
\* the log up to the call of the waiter
WaitStart(lg) == <<lg[1]>>

\* one pass of the loop of WaitUntilClusterIsActive (make-coe.go:244-256)
PollActiveForever ==
    /\ pc = "waitActive"
    /\ \E authOk \in AuthOutcomesFor(svc), resp \in ClusterResps :
         LET g == GetCluster(svc, authOk, resp)
             st == stepActive(g)
         IN IF st.done
            THEN FinishActive(op, g.svc, cluster, st.cluster, st.err, WaitStart(log) \o g.log)
            ELSE Polling(op, "waitActive", g.svc, cluster, WaitStart(log) \o g.log)
    /\ fs0' = fs0

\* one pass of the loop of WaitUntilClusterIsDeleted (make-coe.go:274-295)
PollDeletedForever ==
    /\ pc = "waitDeleted"
    /\ \E authOk \in AuthOutcomesFor(svc), resp \in ClusterResps :
         LET g == GetCluster(svc, authOk, resp)
             st == stepDeleted(g)
         IN IF st.done
            THEN FinishDeleted(op, g.svc, cluster, st.err, WaitStart(log) \o g.log, "ok")
            ELSE Polling(op, "waitDeleted", g.svc, cluster, WaitStart(log) \o g.log)
    /\ fs0' = fs0

InitWait ==
    /\ pc = "idle"
    /\ op = NoOp
    /\ svc = NewService
    /\ cluster = NoCluster
    /\ log = <<>>
    /\ ret = NoRet
    /\ fs = [d \in FsDirs |-> IF d = <<"/", "a">> THEN "absent" ELSE "dir"]
    /\ fs0 = fs
    /\ client = LoadedClient
    /\ authFailed = FALSE

NextWait ==
    \/ ServiceWaitUntilClusterIsActive
    \/ ServiceWaitUntilClusterIsDeleted
    \/ PollActiveForever
    \/ PollDeletedForever
    \/ NewClusterService
    \/ Return

\* the loops run on: a pass that is due is made (time.Sleep returns and the
\* fetch is issued)
SpecWait ==
    /\ InitWait
    /\ [][NextWait]_vars
    /\ WF_vars(PollActiveForever)
    /\ WF_vars(PollDeletedForever)

(***************************************************************************)
(* A process from the start: NewClient, then operations of the Client      *)
(***************************************************************************)
InitClient ==
    /\ pc = "idle"
    /\ op = NoOp
    /\ svc = NewService
    /\ cluster = NoCluster
    /\ log = <<>>
    /\ ret = NoRet
    /\ fs \in FsStates
    /\ fs0 = fs
    /\ client = ZeroClient
    /\ authFailed = FALSE

\* an operation is called on a Client that NewClient returned
Constructed == client # ZeroClient

NextClient ==
    \/ NewClient
    \/ Constructed /\ ClientGetQuotas
    \/ Constructed /\ ClientListClusters
    \/ Constructed /\ ClientSetAutoScale
    \/ Return

SpecClient == InitClient /\ [][NextClient]_vars

(***************************************************************************)
(* Properties                                                              *)
(***************************************************************************)
Done == pc = "done"
ClientDone(names) == Done /\ op.layer = "client" /\ op.name \in names
Has(lg, e) == Count(lg, e) > 0
Only(lg, es) == SelectSeq(lg, LAMBDA x : x.e \in es)
LastOf(lg) == lg[Len(lg)]
EqualFold(s, lower) == ToLower(s) = lower

\* the operations of the Client that defer SaveAccount themselves
DeferringOps ==
    { "GetQuotas", "CreateCluster", "DownloadClusterCredentials", "ListClusters",
      "ListClusterTemplates", "GetCluster", "GrowCluster", "ResizeCluster",
      "RebuildCluster", "SetAutoScale", "DeleteCluster" }

SavedOnceAtTheEnd ==
    /\ Count(log, "Cache.SaveAccount") = 1
    /\ LastOf(log).e = "Cache.SaveAccount"

\* C1 as stated: every one of the twelve Client operations, GetSourceCommand
\* included, has run SaveAccount exactly once, as its last step, when it
\* returns.
C1_SaveAccountEveryOperation ==
    ClientDone(DeferringOps \cup {"GetSourceCommand"}) => SavedOnceAtTheEnd

\* C1 (amended): each of the eleven Client operations that defer it has run
\* SaveAccount exactly once, as its last step, when it returns, on the
\* success path and on every error path.  GetSourceCommand defers nothing:
\* SaveAccount runs there only as the last step of the
\* DownloadClusterCredentials it calls when the bundle on disk fails
\* verification, before getCredentialScriptPath, and not at all when the
\* bundle verifies.
C1_SaveAccountDeferred ==
    /\ ClientDone(DeferringOps) => SavedOnceAtTheEnd
    /\ ClientDone({"GetSourceCommand"}) =>
         /\ log[1].e = "Verify"
         /\ Count(log, "Cache.SaveAccount") = (IF log[1].err = NoErr THEN 0 ELSE 1)
         /\ \A i \in 1..Len(log) :
              log[i].e = "Cache.SaveAccount" =>
                \A j \in (i + 1)..Len(log) : log[j].e = "getCredentialScriptPath"

\* a partially-completed operation: authentication succeeded, the creation
\* failed, and the account was saved all the same
C1_Witness ==
    /\ ClientDone({"CreateCluster"})
    /\ ret.err # NoErr
    /\ \E i \in 1..Len(log) : log[i].e = "Authenticate" /\ log[i].err = NoErr
    /\ \E i \in 1..Len(log) : log[i].e = "Create" /\ log[i].err # NoErr
    /\ SavedOnceAtTheEnd

\* the backend answered the Delete call of this operation with 404
DeleteNotFound ==
    /\ ClientDone({"DeleteCluster"})
    /\ \E i \in 1..Len(log) :
         /\ log[i].e = "Delete"
         /\ Cause(log[i].err) = HTTPErr(StatusNotFound)

\* the directory DeleteClusterCredentials is asked to remove, as the
\* operation's arguments name it
CredentialsPath == buildClusterCredentialsPath(op.account, op.token, op.customPath)

CredentialErrors == { "no-home", "unsafe-path", "no-ca.pem", "remove-failed" }

\* C2 as stated: a Delete answered with 404 makes Client.DeleteCluster run
\* DeleteClusterCredentials and return no error, without any GetCluster
\* fetch.
C2_NotFoundDeleteReturnsNoError ==
    DeleteNotFound =>
        /\ Count(log, "DeleteClusterCredentials") = 1
        /\ ~Has(log, "Get")
        /\ ret.err = NoErr

\* C2 (amended): a Delete answered with 404 is not an error: the service
\* returns a synthesized cluster with status "deleted", a requested wait on
\* it returns at once without any GetCluster fetch, and Client.DeleteCluster
\* runs DeleteClusterCredentials and returns what that returns: no error
\* when the credentials directory is safe and absent, or is removed, and
\* otherwise the credential error, never the 404.
C2_NotFoundDeleteIsNoOp ==
    DeleteNotFound =>
        /\ Count(log, "DeleteClusterCredentials") = 1
        /\ ~Has(log, "Get")
        /\ op.wait => cluster = SynthesizedDeleted /\ Has(log, "WaitUntilClusterIsDeleted")
        /\ ret.err.kind \in {"nil"} \cup CredentialErrors
        /\ (CredentialsPath.err = NoErr
              /\ Clean(CredentialsPath.path) \notin { <<>>, Cwd, Root }
              /\ ~Exists(fs0, CredentialsPath.path)) => ret.err = NoErr
        /\ Has(log, "RemoveAll") /\ ~Exists(fs, CredentialsPath.path) => ret.err = NoErr

\* the cluster was already gone, the caller waited, and the credentials on
\* disk were removed
C2_Witness ==
    /\ DeleteNotFound
    /\ op.wait
    /\ cluster = SynthesizedDeleted
    /\ Has(log, "RemoveAll")
    /\ ret.err = NoErr

\* the templates of the cache whose name matches the pattern resolved
Matching == { i \in DOMAIN svc.clusterTypeCache : GlobI(op.token, svc.clusterTypeCache[i]) }

\* lookupClusterTypeByName has returned after looking at the cache
Resolved == op.name = "lookupClusterTypeByName" /\ svc.cacheSet

\* C3: whatever order the cached templates are visited in, the resolver
\* returns a not-found error naming the pattern when no template name
\* matches, the matching template when exactly one does, and
\* MultipleMatchingTemplatesError naming the pattern, with no template,
\* when two or more do.
C3_TemplateResolution ==
    Resolved =>
        /\ Matching = {} =>
             ret.err = ErrorNaming("Could not find template", op.token) /\ ret.val = NoType
        /\ Cardinality(Matching) = 1 =>
             /\ ret.err = NoErr
             /\ ret.val.ID \in Matching
             /\ ret.val.Name = svc.clusterTypeCache[ret.val.ID]
        /\ Cardinality(Matching) >= 2 =>
             /\ ret.err = ErrorNaming("MultipleMatchingTemplatesError", op.token)
             /\ ret.val = NoType

\* two templates differing only in id match a pattern in another case
C3_Witness ==
    /\ Resolved
    /\ Cardinality(Matching) >= 2
    /\ op.token = <<"k", "s">>
    /\ ret.err.kind = "MultipleMatchingTemplatesError"

\* the part of the log written by the polling wait in progress or returned
ActiveWait == After(log, "WaitUntilClusterIsActive")
DeletedWait == After(log, "WaitUntilClusterIsDeleted")
InActiveWait == Has(log, "WaitUntilClusterIsActive")
InDeletedWait == Has(log, "WaitUntilClusterIsDeleted")
Fetches(w) == Only(w, {"Get"})
\* GetCluster's calls: Authenticate if the session is unset, then Get
FetchSteps(w) == Only(w, {"Authenticate", "Get"})

\* C4: WaitUntilClusterIsActive called with a cluster whose status is
\* "active" in any letter case returns that cluster and no error at once,
\* without a GetCluster fetch and without an authentication attempt.
C4_ActiveReturnsAtOnce ==
    (InActiveWait /\ EqualFold(cluster.Status, sActive)) =>
        /\ Done
        /\ FetchSteps(ActiveWait) = <<>>
        /\ ret.cluster = cluster
        /\ ret.err = NoErr

\* a service that never authenticated is asked to wait for a cluster
\* reported as "Active"
C4_Witness ==
    /\ Done
    /\ op.layer = "service"
    /\ InActiveWait
    /\ ~svc.client
    /\ cluster.Status = <<"A", "c", "t", "i", "v", "e">>
    /\ ret.cluster = cluster

TerminalActive(s) == EqualFold(s, sActive) \/ EqualFold(s, sError)

\* C5: called with a pending cluster, WaitUntilClusterIsActive keeps
\* fetching exactly as long as the fetched status is pending: every fetch
\* but the last returned a pending status, a wait that returned a cluster
\* returned the snapshot of its last fetch, whose status is terminal, so n
\* pending answers and a terminal one cost n + 1 GetCluster calls.
C5_FetchesUntilTerminal ==
    (InActiveWait /\ ~TerminalActive(cluster.Status)) =>
        LET g == Fetches(ActiveWait)
        IN /\ \A i \in 1..(Len(g) - 1) : g[i].err = NoErr /\ ~TerminalActive(g[i].s)
           /\ pc = "waitActive" =>
                \A i \in 1..Len(g) : g[i].err = NoErr /\ ~TerminalActive(g[i].s)
           /\ (Done /\ ret.err = NoErr) =>
                /\ Len(g) >= 1
                /\ LastOf(g).err = NoErr
                /\ TerminalActive(LastOf(g).s)
                /\ ret.cluster = BackendCluster(LastOf(g).s)
                /\ Len(g) = Cardinality({ i \in 1..Len(g) : ~TerminalActive(g[i].s) }) + 1

\* "building", then "building" and "active" fetched: two re-fetches
C5_Witness ==
    /\ Done
    /\ InActiveWait
    /\ cluster.Status = sBuilding
    /\ Len(Fetches(ActiveWait)) = 2
    /\ Fetches(ActiveWait)[1].s = sBuilding
    /\ Fetches(ActiveWait)[2].s = sActive
    /\ ret.cluster = BackendCluster(sActive)
    /\ ret.err = NoErr

\* the last GetCluster of the wait failed: in Authenticate or in Get
LastFetchFailed(w) == FetchSteps(w) # <<>> /\ LastOf(FetchSteps(w)).err # NoErr

\* C6: in WaitUntilClusterIsActive a status of "error", in any letter case,
\* ends the wait with that cluster and no error, whether the cluster passed
\* in or a fetched snapshot carries it; the wait returns an error exactly
\* when its last GetCluster failed.
C6_ErrorStatusIsSuccessValue ==
    InActiveWait =>
        LET g == Fetches(ActiveWait)
        IN /\ EqualFold(cluster.Status, sError) =>
                Done /\ g = <<>> /\ ret.cluster = cluster /\ ret.err = NoErr
           /\ \A i \in 1..Len(g) :
                (g[i].err = NoErr /\ EqualFold(g[i].s, sError)) =>
                    /\ Done
                    /\ i = Len(g)
                    /\ ret.cluster = BackendCluster(g[i].s)
                    /\ ret.err = NoErr
           /\ Done => (ret.err # NoErr <=> LastFetchFailed(ActiveWait))

\* a fetched snapshot in status "ERROR" is handed back without an error
C6_Witness ==
    /\ Done
    /\ InActiveWait
    /\ Len(Fetches(ActiveWait)) = 2
    /\ ret.cluster = BackendCluster(<<"E", "R", "R", "O", "R">>)
    /\ ret.err = NoErr

NotFound(e) == Cause(e) = HTTPErr(StatusNotFound)

\* what the Client does with the error of the wait: nil lets it go on to
\* DeleteClusterCredentials, anything else is returned wrapped
WaitDeletedReturnedNil ==
    IF op.layer = "client" THEN Count(log, "DeleteClusterCredentials") = 1
    ELSE ret.err = NoErr

\* C7: in WaitUntilClusterIsDeleted a GetCluster that fails with 404 ends
\* the wait with no error, at whichever iteration it happens and whatever
\* statuses were fetched before.
C7_NotFoundEndsWait ==
    InDeletedWait =>
        LET g == Fetches(DeletedWait)
        IN \A i \in 1..Len(g) :
             NotFound(g[i].err) => Done /\ i = Len(g) /\ WaitDeletedReturnedNil

\* the third fetch of a wait called directly answers 404
C7_Witness ==
    /\ Done
    /\ op.layer = "service"
    /\ InDeletedWait
    /\ Len(Fetches(DeletedWait)) = 3
    /\ Fetches(DeletedWait)[1].s = sBuilding
    /\ NotFound(LastOf(Fetches(DeletedWait)).err)
    /\ ret.err = NoErr

DeletionError == NewError("Unable to delete cluster, an error occured while deleting.")

\* WaitUntilClusterIsDeleted returned the deletion error: the Client
\* returns it wrapped and leaves the credentials alone
WaitDeletedReturnedDeletionError ==
    /\ Cause(ret.err) = DeletionError
    /\ ~Has(log, "DeleteClusterCredentials")

\* C8: in WaitUntilClusterIsDeleted a status of "error", in any letter case,
\* ends the wait with the deletion error: at once and without a fetch when
\* the cluster passed in carries it, and with no further fetch when a
\* fetched snapshot does.
C8_ErrorStatusFailsDeletion ==
    InDeletedWait =>
        LET g == Fetches(DeletedWait)
        IN /\ EqualFold(cluster.Status, sError) =>
                Done /\ FetchSteps(DeletedWait) = <<>> /\ WaitDeletedReturnedDeletionError
           /\ \A i \in 1..Len(g) :
                (g[i].err = NoErr /\ EqualFold(g[i].s, sError)) =>
                    Done /\ i = Len(g) /\ WaitDeletedReturnedDeletionError

\* the second fetch of a wait reports "ERROR"
C8_Witness ==
    /\ Done
    /\ InDeletedWait
    /\ Len(Fetches(DeletedWait)) = 2
    /\ LastOf(Fetches(DeletedWait)).s = <<"E", "R", "R", "O", "R">>
    /\ Cause(ret.err) = DeletionError

\* C9: a GetCluster that fails inside a polling loop is the last one of the
\* wait: WaitUntilClusterIsActive returns its error whatever it is, 404
\* included, and WaitUntilClusterIsDeleted returns it unless it is a 404.
C9_FetchFailurePropagates ==
    /\ InActiveWait =>
         LET f == FetchSteps(ActiveWait)
         IN \A i \in 1..Len(f) :
              f[i].err # NoErr =>
                  Done /\ i = Len(f) /\ Cause(ret.err) = Cause(f[i].err)
    /\ InDeletedWait =>
         LET f == FetchSteps(DeletedWait)
         IN \A i \in 1..Len(f) :
              f[i].err # NoErr =>
                  /\ Done
                  /\ i = Len(f)
                  /\ ~NotFound(f[i].err) =>
                       Cause(ret.err) = Cause(f[i].err) /\ ~Has(log, "DeleteClusterCredentials")

\* a wait for an active cluster ends on its second fetch, answered 404
C9_Witness ==
    /\ Done
    /\ InActiveWait
    /\ Len(Fetches(ActiveWait)) = 2
    /\ NotFound(LastOf(Fetches(ActiveWait)).err)
    /\ Cause(ret.err) = HTTPErr(StatusNotFound)

\* DeleteClusterCredentials ran and resolved a path that normalizes to the
\* empty path, the current directory or the root
UnsafeDeletion ==
    /\ Done
    /\ Has(log, "DeleteClusterCredentials")
    /\ CredentialsPath.err = NoErr
    /\ Clean(CredentialsPath.path) \in { <<>>, Cwd, Root }

\* C10: when the credentials path normalizes to the empty path, "." or "/",
\* DeleteClusterCredentials returns an error, attempts no removal and
\* leaves the disk as it was, whichever account, cluster name and override
\* directory led there.
C10_UnsafePathNeverRemoved ==
    UnsafeDeletion =>
        /\ ret.err # NoErr
        /\ ~Has(log, "RemoveAll")
        /\ fs = fs0

\* the override directory "/." names the root, which holds a ca.pem
C10_Witness ==
    /\ UnsafeDeletion
    /\ op.name = "DeleteClusterCredentials"
    /\ op.customPath = <<"/", ".">>
    /\ fs[Root] = "creds"
    /\ Cause(ret.err) = NewError("unsafe-path")

\* DeleteClusterCredentials ran on a path that resolved and is safe
SafeDeletion ==
    /\ Done
    /\ Has(log, "DeleteClusterCredentials")
    /\ CredentialsPath.err = NoErr
    /\ Clean(CredentialsPath.path) \notin { <<>>, Cwd, Root }

\* what the disk held at the credentials path when the operation began
AtCredentialsPath ==
    LET p == Clean(CredentialsPath.path)
    IN IF p \in FsDirs THEN fs0[p] ELSE "absent"

\* C11 as stated: on a safe path DeleteClusterCredentials has three
\* outcomes: nothing at the path, it returns no error and changes nothing;
\* something at the path that does not hold ca.pem, it returns an error and
\* removes nothing; otherwise it goes on to remove the directory.
C11_ThreeOutcomes ==
    SafeDeletion =>
        CASE AtCredentialsPath = "absent" ->
                 ret.err = NoErr /\ fs = fs0 /\ ~Has(log, "RemoveAll")
          [] AtCredentialsPath \in {"dir", "file"} ->
                 ret.err # NoErr /\ fs = fs0 /\ ~Has(log, "RemoveAll")
          [] OTHER -> Has(log, "RemoveAll")

\* the calls that go to the backend through the authenticated client
BackendCalls == { "Get", "Create", "Resize", "Delete", "List", "GetCredentials", "ListClusterTypes" }

\* the events one step adds: a polling pass extends the log of its
\* operation, a call from idle starts a new one
StepEvents ==
    IF pc \in {"waitActive", "waitDeleted"} THEN SubSeq(log', Len(log) + 1, Len(log')) ELSE log'

\* the step's events on the instance it ends with, and whether that instance
\* held a session when they began: a Client operation builds its own
InstanceEvents ==
    IF Has(StepEvents, "NewClusterService") THEN After(StepEvents, "NewClusterService")
    ELSE StepEvents
SessionAtStart == svc.client /\ ~Has(StepEvents, "NewClusterService")

Authenticated(ev) == ev.e = "Authenticate" /\ ev.err = NoErr

\* C12: a service is constructed without a session and without authenticating;
\* an instance without a session authenticates before its first backend call;
\* once Authenticate has succeeded on an instance the session is kept and
\* no operation on that instance calls Authenticate again.
C12_AuthenticatesLazilyOnce ==
    [][ LET E == InstanceEvents
        IN /\ pc' = "idle" => (svc' = svc \/ ~svc'.client) /\ StepEvents = <<>>
           /\ SessionAtStart => \A i \in 1..Len(E) : E[i].e # "Authenticate"
           /\ \A i \in 1..Len(E) :
                /\ Authenticated(E[i]) => \A j \in (i + 1)..Len(E) : E[j].e # "Authenticate"
                /\ E[i].e \in BackendCalls =>
                     SessionAtStart \/ \E j \in 1..(i - 1) : Authenticated(E[j])
           /\ pc' # "idle" =>
                svc'.client = (SessionAtStart \/ \E i \in 1..Len(E) : Authenticated(E[i]))
      ]_vars

\* an operation called on an instance that a former operation authenticated
\* reached the backend without authenticating
C12_Witness ==
    /\ Done
    /\ op.layer = "service"
    /\ svc.client
    /\ Has(log, "List")
    /\ ~Has(log, "Authenticate")

\* the operations the make-coe service does not support
Unsupported == { "GrowCluster", "RebuildCluster", "SetAutoScale" }

\* C13: GrowCluster, RebuildCluster and SetAutoScale return a nil cluster and
\* an error without authenticating and without a backend call, whether the
\* instance holds a session or not, and the Client never starts a wait after
\* them, even when asked to wait.
C13_UnsupportedOperationsFail ==
    op.name \in Unsupported =>
        /\ pc = "done"
        /\ ret.cluster = NoCluster
        /\ ret.err # NoErr
        /\ \A i \in 1..Len(log) :
             log[i].e \notin BackendCalls \cup {"Authenticate", "WaitUntilClusterIsActive"}

\* the Client was asked to grow a cluster and wait for it
C13_Witness ==
    /\ ClientDone({"GrowCluster"})
    /\ op.wait
    /\ ret.err # NoErr
    /\ ~Has(log, "WaitUntilClusterIsActive")

\* the backend call each operation makes and the context it wraps a failure
\* of that call with
BackendCallOf ==
    [ CreateCluster |-> "Create", GetCluster |-> "Get", ListClusters |-> "List",
      ResizeCluster |-> "Resize", DeleteCluster |-> "Delete",
      GetClusterCredentials |-> "GetCredentials",
      DownloadClusterCredentials |-> "GetCredentials" ]
ContextOf ==
    [ Create |-> "Unable to create cluster", Get |-> "Unable to retrieve cluster",
      List |-> "Unable to list clusters", Resize |-> "Unable to resize cluster",
      Delete |-> "Unable to delete cluster",
      GetCredentials |-> "Unable to retrieve the cluster credentials" ]

\* the operation's own backend call failed, and not with the Not Found that
\* a delete takes for success
BackendCallFailed ==
    /\ Done
    /\ op.name \in DOMAIN BackendCallOf
    /\ \E i \in 1..Len(log) :
         /\ log[i].e = BackendCallOf[op.name]
         /\ log[i].err # NoErr
         /\ ~(log[i].e = "Delete" /\ NotFound(log[i].err))

\* C14 as stated: when the backend call of CreateCluster, GetCluster,
\* ListClusters, ResizeCluster, DeleteCluster or GetClusterCredentials fails,
\* the caller gets a non-nil error that still carries the operation's
\* context.
C14_BackendErrorsKeepContext ==
    BackendCallFailed =>
        /\ ret.err # NoErr
        /\ \E k \in 1..Len(ret.err.ctx) : ret.err.ctx[k] = ContextOf[BackendCallOf[op.name]]

\* NewClient has returned; it looks for a cache exactly when the cache is
\* enabled, and a step of that failed if the log holds an error
Constructing == ClientDone({"NewClient"})
CacheDisabled == log = <<>>
CacheStepFailed == \E i \in 1..Len(log) : log[i].err # NoErr

\* C15: NewClient always returns a Client with a non-nil Cache: an empty
\* cache and no Error when the cache is disabled; an empty cache and a
\* CacheUnavailableError when resolving or creating the credentials
\* directory, naming the cache file or loading it fails; and the Cache
\* stays non-nil for every operation called afterwards.
C15_CacheNeverNil ==
    /\ Constructed => ~client.Cache.nil
    /\ pc = "done" => Constructed
    /\ Constructing /\ CacheDisabled => client = [Cache |-> EmptyCache, Error |-> NoErr]
    /\ Constructing /\ CacheStepFailed =>
         /\ client.Cache = EmptyCache
         /\ client.Error.kind = "CacheUnavailableError"
    /\ Constructing /\ ~CacheDisabled /\ ~CacheStepFailed => client.Error = NoErr

\* the cache file was found and could not be loaded
C15_Witness ==
    /\ Constructing
    /\ ~CacheDisabled
    /\ LastOf(log).e = "load"
    /\ LastOf(log).err # NoErr
    /\ client.Cache = EmptyCache
    /\ client.Error.kind = "CacheUnavailableError"

Waiting == pc \in {"waitActive", "waitDeleted"}

\* the statuses that end each wait
TerminalFor(where) == IF where = "waitActive" THEN {sActive, sError} ELSE {sDeleted, sError}

\* the fetch a polling pass has just made reported a pending status
PendingFetch(where, ev) ==
    ev.e = "Get" /\ ev.err = NoErr /\ ToLower(ev.s) \notin TerminalFor(where)

CacheActions == { "Cache.apply", "Cache.SaveAccount" }

\* the position of the first event named e in lg, 0 if there is none
FirstIndex(lg, e) ==
    IF Has(lg, e) THEN CHOOSE i \in 1..Len(lg) : lg[i].e = e /\ \A j \in 1..(i - 1) : lg[j].e # e
    ELSE 0

\* a Client operation that builds a service, under way or returned
UsesService == op.layer = "client" /\ Has(log, "NewClusterService")

\* C17: a Client operation that builds a service hydrates the account from
\* the cache once, before the service is constructed and so before every
\* authentication and backend call; the only cache action after that is one
\* SaveAccount, after the last authentication or backend call, once the
\* operation's calls are over.
C17_HydrateFirstSaveLast ==
    UsesService =>
        LET apply == FirstIndex(log, "Cache.apply")
            save == FirstIndex(log, "Cache.SaveAccount")
            cache == Only(log, CacheActions)
        IN /\ apply > 0
           /\ apply < FirstIndex(log, "NewClusterService")
           /\ \A i \in 1..Len(log) :
                log[i].e \in BackendCalls \cup {"Authenticate", "NewClusterService"} =>
                    apply < i /\ (save > 0 => i < save)
           /\ IF pc = "done"
              THEN Len(cache) = 2 /\ cache[1].e = "Cache.apply" /\ cache[2].e = "Cache.SaveAccount"
              ELSE Len(cache) = 1

\* a listing that authenticated and reached the backend
C17_Witness ==
    /\ ClientDone({"ListClusters"})
    /\ log[1].e = "Cache.apply"
    /\ Has(log, "Authenticate")
    /\ Has(log, "List")
    /\ LastOf(log).e = "Cache.SaveAccount"

WaitingOps == { "CreateCluster", "GetCluster", "GrowCluster", "ResizeCluster", "RebuildCluster" }

\* the position in the log of the operation's own backend call, 0 if it
\* made none
OwnCall == IF op.name \in DOMAIN BackendCallOf THEN FirstIndex(log, BackendCallOf[op.name]) ELSE 0

\* the service call of the operation returned no error
ServiceCallSucceeded ==
    /\ OwnCall > 0
    /\ \/ log[OwnCall].err = NoErr
       \/ op.name = "DeleteCluster" /\ NotFound(log[OwnCall].err)

\* C18: a Client operation calls the waiter exactly when its caller asked
\* for it and the service call returned no error: WaitUntilClusterIsActive
\* in CreateCluster, GetCluster, GrowCluster, ResizeCluster, RebuildCluster,
\* WaitUntilClusterIsDeleted in DeleteCluster.  Not asked, it issues no
\* polling fetch and returns the cluster the backend call produced.
C18_PollingIffAskedAndSucceeded ==
    op.layer = "client" /\ op.name \in WaitingOps \cup {"DeleteCluster"} =>
        /\ Has(log, "WaitUntilClusterIsActive") =
             (op.name \in WaitingOps /\ op.wait /\ ServiceCallSucceeded)
        /\ Has(log, "WaitUntilClusterIsDeleted") =
             (op.name = "DeleteCluster" /\ op.wait /\ ServiceCallSucceeded)
        /\ ~op.wait =>
             /\ pc = "done"
             /\ Count(log, "Get") = (IF op.name = "GetCluster" /\ OwnCall > 0 THEN 1 ELSE 0)
             /\ op.name \in WaitingOps =>
                  ret.cluster = (IF ServiceCallSucceeded THEN BackendCluster(log[OwnCall].s)
                                 ELSE NoCluster)

\* a resize that was accepted and not waited for: the cluster comes back
\* still building
C18_Witness ==
    /\ ClientDone({"ResizeCluster"})
    /\ ~op.wait
    /\ ServiceCallSucceeded
    /\ ret.cluster = BackendCluster(sBuilding)
    /\ ~Has(log, "Get")

\* C19: on one instance, a resolution lists the cluster types only while the
\* instance has no template cache; a listing that succeeds fills the cache,
\* the cache then stays as it is, and every later resolution on the
\* instance is answered from it without a listing call, so that at most
\* one listing succeeds per instance.
C19_TemplatesListedOnce ==
    [][ op'.name = "lookupClusterTypeByName" =>
          /\ svc.cacheSet => ~Has(log', "ListClusterTypes") /\ svc' = svc
          /\ ~svc.cacheSet =>
               /\ Count(log', "ListClusterTypes") = 1
               /\ svc'.cacheSet = (log'[1].err = NoErr)
               /\ ~svc'.cacheSet => svc' = svc
      ]_vars

\* a resolution found its template without any call to the backend
C19_Witness ==
    /\ op.name = "lookupClusterTypeByName"
    /\ svc.cacheSet
    /\ log = <<>>
    /\ ret.err = NoErr
    /\ ret.val.Name = <<"K", "s">>

\* Client.DeleteCluster, under way or returned
Deleting == op.layer = "client" /\ op.name = "DeleteCluster"

\* the backend delete did not go through: authentication failed, or the
\* Delete call failed with anything but Not Found
BackendDeleteFailed ==
    \/ \E i \in 1..Len(log) : log[i].e = "Authenticate" /\ log[i].err # NoErr
    \/ \E i \in 1..Len(log) :
         log[i].e = "Delete" /\ log[i].err # NoErr /\ ~NotFound(log[i].err)

\* the wait was asked for and failed: the cluster handed to it or the latest
\* snapshot is in status "error", or the latest fetch failed with anything
\* but Not Found
DeletedWaitFailed ==
    /\ Has(log, "WaitUntilClusterIsDeleted")
    /\ LET w == log[FirstIndex(log, "WaitUntilClusterIsDeleted")]
           fetches == Fetches(After(log, "WaitUntilClusterIsDeleted"))
       IN \/ ToLower(w.s) = sError
          \/ /\ fetches # <<>>
             /\ LET g == LastOf(fetches)
                IN IF g.err # NoErr THEN ~NotFound(g.err) ELSE ToLower(g.s) = sError

\* C20: Client.DeleteCluster invokes DeleteClusterCredentials only when the
\* delete and the wait asked for both went through.  If the backend delete
\* fails (other than with Not Found) or the wait fails (fetch failure or
\* status "error"), the credentials are not touched, the disk is as it was
\* and the error is returned; and while the wait lasts nothing is removed.
C20_CredentialsKeptOnFailure ==
    Deleting =>
        /\ pc = "done" /\ (BackendDeleteFailed \/ DeletedWaitFailed) =>
             /\ ~Has(log, "DeleteClusterCredentials")
             /\ fs = fs0
             /\ ret.err # NoErr
        /\ Has(log, "DeleteClusterCredentials") =>
             pc = "done" /\ ~BackendDeleteFailed /\ ~DeletedWaitFailed
        /\ pc # "done" => fs = fs0

\* the backend accepted the delete, a later snapshot of the cluster is in
\* status "error", and the credentials on disk are still there
C20_Witness ==
    /\ Deleting
    /\ pc = "done"
    /\ op.wait
    /\ DeletedWaitFailed
    /\ Fetches(After(log, "WaitUntilClusterIsDeleted")) # <<>>
    /\ Cause(ret.err) = DeletionError
    /\ CredentialsPath.err = NoErr
    /\ HasCA(fs0, CredentialsPath.path)
    /\ fs = fs0

\* the operations of the service that begin with carina.init()
AuthenticatingOps ==
    { "CreateCluster", "GetClusterCredentials", "ListClusters", "ListClusterTemplates",
      "GetCluster", "DeleteCluster", "ResizeCluster" }

AuthenticateFailed(ev) == ev.e = "Authenticate" /\ ev.err # NoErr

\* the step calls carina.init(): it starts one of the operations that begin
\* with it, or is a pass of a polling loop, which calls GetCluster
StepCallsInit ==
    \/ pc = "idle" /\ pc' # "idle" /\ op'.layer = "service" /\ op'.name \in AuthenticatingOps
    \/ pc \in {"waitActive", "waitDeleted"}

\* C21: a failed authentication is not memoized.  When Account.Authenticate
\* fails the operation returns with that error, no backend call is in its
\* log and the instance still has no session; an operation on an instance
\* whose earlier authentication failed and which has no session calls
\* Authenticate again before anything else; and the log of one operation
\* holds at most one Authenticate.
C21_FailedAuthNotMemoized ==
    [][ LET E == InstanceEvents
        IN /\ Count(log', "Authenticate") <= 1
           /\ (\E i \in 1..Len(E) : AuthenticateFailed(E[i])) =>
                /\ pc' = "done"
                /\ AuthenticateFailed(E[1])
                /\ \A i \in 1..Len(log') : log'[i].e \notin BackendCalls
                /\ Cause(ret'.err) = AuthErr
                /\ ~svc'.client
           /\ authFailed /\ ~svc.client /\ StepCallsInit =>
                StepEvents # <<>> /\ StepEvents[1].e = "Authenticate"
      ]_vars

\* an instance whose authentication failed in an earlier operation has
\* authenticated again, this time with success, and reached the backend
C21_Witness ==
    /\ Done
    /\ op.layer = "service"
    /\ op.name = "GetCluster"
    /\ authFailed
    /\ svc.client
    /\ Len(log) = 2
    /\ Authenticated(log[1])
    /\ log[2].e = "Get"

====
